---------------------------- MODULE Spec2Model ----------------------------
(***************************************************************************)
(* State-machine model of the Storj worker gateway (src/app.py): a Flask   *)
(* application that proxies note and canvas CRUD requests to an            *)
(* S3-compatible bucket, gates them with a static bearer token and keeps   *)
(* process-wide bandwidth counters in before/after request hooks.          *)
(*                                                                         *)
(* Conventions.  File names, header values and JSON documents are TLA+     *)
(* strings; note/canvas contents are sequences of Unicode code points and  *)
(* stored objects are sequences of bytes, so that str.encode("utf-8") and  *)
(* bytes.decode("utf-8") are computed.  A value of None or "" of the       *)
(* program is the empty string here where the code only tests its          *)
(* truthiness.                                                             *)
(***************************************************************************)
EXTENDS Integers, Sequences, FiniteSets, TLC

(***************************************************************************)
(* Bounds of the model.                                                    *)
(***************************************************************************)
\* Requests accepted in one behaviour when they are handled one at a time.
MaxRequests == 2
\* Requests accepted in one behaviour when two may be in flight together.
MaxRaceRequests == 2

(***************************************************************************)
(* Python string helpers.                                                  *)
(***************************************************************************)
CANVAS == ".canvas"

\* str.endswith
EndsWith(s, suffix) ==
    /\ Len(s) >= Len(suffix)
    /\ SubSeq(s, Len(s) - Len(suffix) + 1, Len(s)) = suffix

\* The suffix rule of the canvas handlers:
\*   if not filename.endswith(".canvas"): filename = f"{filename}.canvas"
\* The name as the client gave it.
CanvasKeyAsGiven(filename) == filename

CanvasKey(filename) ==
    IF ~EndsWith(filename, CANVAS) THEN filename \o CANVAS ELSE filename

\* Concatenation of a sequence of strings.
RECURSIVE Concat(_)
Concat(ss) == IF ss = <<>> THEN "" ELSE Head(ss) \o Concat(Tail(ss))

\* ", ".join(ss) with an arbitrary separator.
RECURSIVE Join(_, _)
Join(ss, sep) ==
    IF ss = <<>> THEN ""
    ELSE IF Len(ss) = 1 THEN ss[1]
    ELSE ss[1] \o sep \o Join(Tail(ss), sep)

(***************************************************************************)
(* UTF-8: str.encode("utf-8") and bytes.decode("utf-8") (strict).          *)
(* A text is a sequence of code points, an object body a sequence of       *)
(* bytes.  Encoding a lone surrogate raises UnicodeEncodeError; decoding   *)
(* an ill-formed sequence raises UnicodeDecodeError.                       *)
(***************************************************************************)
IsSurrogate(cp) == cp >= 55296 /\ cp <= 57343

EncodeCodePoint(cp) ==
    IF cp < 128 THEN <<cp>>
    ELSE IF cp < 2048 THEN <<192 + (cp \div 64), 128 + (cp % 64)>>
    ELSE IF cp < 65536
         THEN <<224 + (cp \div 4096), 128 + ((cp \div 64) % 64), 128 + (cp % 64)>>
    ELSE <<240 + (cp \div 262144), 128 + ((cp \div 4096) % 64),
           128 + ((cp \div 64) % 64), 128 + (cp % 64)>>

Encodable(text) == \A i \in 1..Len(text) : ~IsSurrogate(text[i])

RECURSIVE Utf8Encode(_)
Utf8Encode(text) ==
    IF text = <<>> THEN <<>>
    ELSE EncodeCodePoint(Head(text)) \o Utf8Encode(Tail(text))

IsCont(b) == b >= 128 /\ b <= 191

\* Length of the well-formed sequence starting at bytes[1], 0 if ill-formed.
SeqLenAt(bytes) ==
    LET b == bytes[1] IN
    IF b < 128 THEN 1
    ELSE IF b >= 194 /\ b <= 223 /\ Len(bytes) >= 2 /\ IsCont(bytes[2]) THEN 2
    ELSE IF b >= 224 /\ b <= 239 /\ Len(bytes) >= 3
            /\ IsCont(bytes[2]) /\ IsCont(bytes[3])
            /\ (b = 224 => bytes[2] >= 160)
            /\ (b = 237 => bytes[2] <= 159) THEN 3
    ELSE IF b >= 240 /\ b <= 244 /\ Len(bytes) >= 4
            /\ IsCont(bytes[2]) /\ IsCont(bytes[3]) /\ IsCont(bytes[4])
            /\ (b = 240 => bytes[2] >= 144)
            /\ (b = 244 => bytes[2] <= 143) THEN 4
    ELSE 0

DecodeAt(bytes, n) ==
    IF n = 1 THEN bytes[1]
    ELSE IF n = 2 THEN (bytes[1] - 192) * 64 + (bytes[2] - 128)
    ELSE IF n = 3 THEN (bytes[1] - 224) * 4096 + (bytes[2] - 128) * 64
                       + (bytes[3] - 128)
    ELSE (bytes[1] - 240) * 262144 + (bytes[2] - 128) * 4096
         + (bytes[3] - 128) * 64 + (bytes[4] - 128)

RECURSIVE Decodable(_)
Decodable(bytes) ==
    IF bytes = <<>> THEN TRUE
    ELSE LET n == SeqLenAt(bytes) IN
         n > 0 /\ Decodable(SubSeq(bytes, n + 1, Len(bytes)))

\* bytes.decode("latin-1"): every byte is a character.
Latin1Decode(bytes) == bytes

RECURSIVE Utf8Decode(_)
Utf8Decode(bytes) ==
    IF bytes = <<>> THEN <<>>
    ELSE LET n == SeqLenAt(bytes) IN
         <<DecodeAt(bytes, n)>> \o Utf8Decode(SubSeq(bytes, n + 1, Len(bytes)))


(***************************************************************************)
(* JSON values of the model.  A "content" member is absent/None, a string  *)
(* (a text) or a list of small integers.                                   *)
(***************************************************************************)
NoContent == [t |-> "none", v |-> <<>>]
Str(text) == [t |-> "str", v |-> text]
List(xs) == [t |-> "list", v |-> xs]

\* Python truthiness of a content value: None, "" and [] are falsy.
Falsy(c) == c.t = "none" \/ c.v = <<>>

\* One character of a JSON string as json.dumps(ensure_ascii=True) writes it.
Chr(cp) ==
    CASE cp = 10    -> "\\n"
      [] cp = 32    -> " "
      [] cp = 49    -> "1"
      [] cp = 50    -> "2"
      [] cp = 65    -> "A"
      [] cp = 91    -> "["
      [] cp = 93    -> "]"
      [] cp = 233   -> "\\u00e9"
      [] cp = 55296 -> "\\ud800"
      [] OTHER      -> "\\u0000"

Q(s) == "\"" \o s \o "\""

JsonString(text) == Q(Concat([i \in 1..Len(text) |-> Chr(text[i])]))

JsonList(xs) == "[" \o Join([i \in 1..Len(xs) |-> ToString(xs[i])], ",") \o "]"

JsonValue(c) ==
    IF c.t = "str" THEN JsonString(c.v)
    ELSE IF c.t = "list" THEN JsonList(c.v)
    ELSE "null"

\* A JSON object from <<name, rendered value>> pairs (names given sorted).
JsonObject(members) ==
    "{" \o Join([i \in 1..Len(members) |->
                    Q(members[i][1]) \o ":" \o members[i][2]], ",") \o "}"

\* flask.jsonify: compact separators, sorted keys, trailing newline.
Jsonify(members) == JsonObject(members) \o "\n"

\* json.dumps(content, indent=2, ensure_ascii=False) of a list of digits,
\* as a text.
JsonDumpsIndent2(xs) ==
    IF xs = <<>> THEN <<91, 93>>
    ELSE <<91, 10>>
         \o [i \in 1..(5 * Len(xs) - 2) |->
               LET r == (i - 1) % 5 IN
               IF r = 0 \/ r = 1 THEN 32
               ELSE IF r = 2 THEN 48 + xs[((i - 1) \div 5) + 1]
               ELSE IF r = 3 THEN 44 ELSE 10]
         \o <<10, 93>>

ListValues == {<<1>>, <<2>>}

\* json.loads in get_canvas: the documents json.dumps above produces parse
\* back to their list; every other text of the model raises JSONDecodeError,
\* which the handler answers with the raw string.
JsonLoads(text) ==
    IF \E xs \in ListValues : JsonDumpsIndent2(xs) = text
    THEN List(CHOOSE xs \in ListValues : JsonDumpsIndent2(xs) = text)
    ELSE Str(text)

\* The conversion "dict/list -> json.dumps, anything else -> str(content)".
ContentStr(c) == IF c.t = "list" THEN JsonDumpsIndent2(c.v) ELSE c.v

\* repr() of round(n / d, 2): hundredths rounded half to even, and Python's
\* shortest float form ("0.0", "0.1", "0.12").
Round2(n, d) ==
    LET q0 == (n * 100) \div d
        r  == (n * 100) % d
        q  == IF 2 * r > d \/ (2 * r = d /\ q0 % 2 = 1) THEN q0 + 1 ELSE q0
        w  == q \div 100
        f  == q % 100
    IN  ToString(w) \o "."
        \o (IF f % 10 = 0 THEN ToString(f \div 10)
            ELSE IF f < 10 THEN "0" \o ToString(f) ELSE ToString(f))


(***************************************************************************)
(* Requests.  A request names the endpoint it is routed to ("" when no     *)
(* route matches, Flask's request.endpoint = None), carries an             *)
(* Authorization header ("" when absent) and a body that is empty, a JSON  *)
(* object with optional "filename" and "content" members, or a             *)
(* form-encoded list of pairs.  path is the <path:filename> URL part.      *)
(* method is "" for the method the route declares.                         *)
(***************************************************************************)
TOKEN == "tok"

GoodHeader == "Bearer " \o TOKEN

Headers == {"", TOKEN, GoodHeader}

FileNames == {"foo", "foo.canvas"}

\* "A", "e-acute euro", an emoji outside the basic plane, a lone surrogate.
Texts == {<<65>>, <<233, 8364>>, <<128512>>, <<55296>>}

FormPairs == << <<"a", "b">> >>

Request(endpoint, authorization, ctype, filename, content, path) ==
    [endpoint |-> endpoint, method |-> "", authorization |-> authorization,
     ctype |-> ctype, filename |-> filename, content |-> content, path |-> path]

\* An OPTIONS request, which Flask answers itself for every route.
Options(endpoint, authorization) ==
    [Request(endpoint, authorization, "none", "", NoContent, "")
        EXCEPT !.method = "OPTIONS"]

PlainEndpoints == {"health", "openapi_spec", "", "get_stats", "list_notes",
                   "list_canvas"}

PathEndpoints == {"get_canvas", "delete_canvas"}

\* Every route under every header, each with a body its handler accepts.
AuthRequests ==
    {Request(e, h, "none", "", NoContent, "") :
        e \in PlainEndpoints, h \in Headers}
    \cup {Request(e, h, "none", "", NoContent, "foo") :
            e \in PathEndpoints, h \in Headers}
    \cup {Request("read_note", h, "json", "foo", NoContent, "") : h \in Headers}
    \cup {Request(e, h, "json", "foo", Str(<<65>>), "") :
            e \in {"write_note", "create_canvas"}, h \in Headers}
    \cup {Request("update_canvas", h, "json", "", Str(<<65>>), "foo") :
            h \in Headers}
    \cup {Options("get_stats", "")}

\* The bodies the note handlers read.
NoteRequests ==
    {Request("list_notes", GoodHeader, "none", "", NoContent, "")}
    \cup {Request("read_note", GoodHeader, "json", f, NoContent, "") :
            f \in FileNames \cup {""}}
    \cup {Request("write_note", GoodHeader, "json", "foo", c, "") :
            c \in {Str(t) : t \in Texts} \cup {NoContent, List(<<1>>)}}
    \cup {Request("write_note", GoodHeader, "json", f, Str(<<65>>), "") :
            f \in {"foo.canvas", ""}}
    \cup {Request("write_note", h, c, "foo", NoContent, "") :
            h \in {"", GoodHeader}, c \in {"form"}}

\* The bodies and paths the canvas handlers read.
CanvasRequests ==
    {Request("list_canvas", GoodHeader, "none", "", NoContent, "")}
    \cup {Request(e, GoodHeader, "none", "", NoContent, p) :
            e \in PathEndpoints, p \in FileNames}
    \cup {Request("create_canvas", GoodHeader, "json", f, Str(<<65>>), "") :
            f \in FileNames \cup {""}}
    \cup {Request("create_canvas", GoodHeader, "json", "foo", c, "") :
            c \in {List(<<1>>), Str(<<55296>>), NoContent}}
    \cup {Request("update_canvas", GoodHeader, "json", "", Str(<<233>>), p) :
            p \in FileNames}
    \cup {Request("update_canvas", h, "json", "", c, "foo") :
            h \in {"", GoodHeader}, c \in {List(<<2>>), NoContent}}

\* Requests with no body, a JSON body and a form-encoded body, to routes
\* that exist and to none.
StatsRequests ==
    {Request(e, GoodHeader, c, "", NoContent, "") :
        e \in {"health", ""}, c \in {"none", "form"}}
    \cup {Request(e, h, "none", "", NoContent, "") :
            e \in {"get_stats", "openapi_spec", "list_notes"},
            h \in {"", GoodHeader}}
    \cup {Request("read_note", GoodHeader, "json", "foo", NoContent, "")}
    \cup {Request("write_note", GoodHeader, c, "foo", Str(<<233>>), "") :
            c \in {"json", "form"}}
    \cup {Options("health", "")}

\* Creations of the same canvas, under its two names and with two contents.
CreateRequests ==
    {Request("create_canvas", GoodHeader, "json", "foo", Str(t), "") :
        t \in {<<65>>, <<233>>}}
    \cup {Request("create_canvas", GoodHeader, "json", "foo.canvas",
                  Str(<<65>>), "")}

\* A request with no body to a route, and one with a JSON body to no route.
CounterRequests ==
    {Request("health", "", "none", "", NoContent, ""),
     Request("", "", "json", "foo", NoContent, "")}

Requests ==
    AuthRequests \cup NoteRequests \cup CanvasRequests \cup StatsRequests
    \cup CreateRequests \cup CounterRequests

\* request.data: the raw body, which Flask leaves empty when it parsed the
\* body as a form.
RequestData(req) ==
    IF req.ctype = "json"
    THEN JsonObject(
           (IF req.content.t # "none"
              THEN << <<"content", JsonValue(req.content)>> >> ELSE <<>>)
           \o (IF req.filename # ""
                 THEN << <<"filename", Q(req.filename)>> >> ELSE <<>>))
    ELSE ""

\* request.form: the parsed pairs of a form-encoded body.
RequestForm(req) == IF req.ctype = "form" THEN FormPairs ELSE <<>>

\* The form-encoded body on the wire: "a=b&c=d".
FormBody(pairs) ==
    Join([i \in 1..Len(pairs) |-> pairs[i][1] \o "=" \o pairs[i][2]], "&")

\* str(request.form): "ImmutableMultiDict([('a', 'b')])".
FormStr(pairs) ==
    "ImmutableMultiDict(["
    \o Join([i \in 1..Len(pairs) |->
               "('" \o pairs[i][1] \o "', '" \o pairs[i][2] \o "')"], ", ")
    \o "])"

\* The bytes of the request body as the client sent them.
RequestBody(req) ==
    IF req.ctype = "form" THEN FormBody(RequestForm(req)) ELSE RequestData(req)

(***************************************************************************)
(* Responses.                                                              *)
(***************************************************************************)
Response(status, error, content, data) ==
    [status |-> status, error |-> error, content |-> content, data |-> data]

NoResponse == Response(0, "", NoContent, "")

\* jsonify({"error": msg}), status
ErrorResponse(status, msg) ==
    Response(status, msg, NoContent, Jsonify(<< <<"error", Q(msg)>> >>))

\* An HTTPException page of werkzeug (404 for no route, 415 for get_json on a
\* body that is not JSON).
AbortResponse(status) ==
    Response(status, "", NoContent,
             "<!doctype html>\n<title>" \o ToString(status) \o "</title>\n")

\* jsonify of a success body
JsonResponse(status, content, members) ==
    Response(status, "", content, Jsonify(members))


(***************************************************************************)
(* State.                                                                  *)
(***************************************************************************)
Workers == {1, 2}

Keys == FileNames \cup {CanvasKey(f) : f \in FileNames}

VARIABLES
    BACKEND_TOKEN,    \* os.getenv("BACKEND_TOKEN"), "" when unset
    store,            \* the bucket: key -> object body (bytes)
    bandwidth_stats,  \* the module-level counters
    pc,               \* worker -> where its request stands
    request,          \* worker -> the request it handles
    response,         \* worker -> the response of the handler
    tmp,              \* worker -> operand of its pending += (value read)
    ref,              \* worker -> the endpoint entry its pending += writes to
    calls,            \* worker -> the store calls made for its request
    pre,              \* worker -> what earlier requests established about
                      \*           its key when its handler first ran
    limit,            \* requests the server handles at the same time
    faults,           \* the ways a store call can fail in this deployment
    quota,            \* requests still accepted in this behaviour
    audit,            \* observer: completed requests and their body sizes
    created,          \* observer: keys created with 201 and not deleted since
    deleted,          \* observer: names deleted with 200 and not put since
    last_write        \* observer: key -> text of the last successful
                      \*           /writeNote, if nothing touched the key since

vars == <<BACKEND_TOKEN, store, bandwidth_stats, pc, request, response, tmp,
          ref, calls, pre, limit, faults, quota, audit, created, deleted,
          last_write>>

worker_vars == <<pc, request, response, tmp, ref, calls, pre>>

observer_vars == <<audit, created, deleted, last_write>>

config_vars == <<BACKEND_TOKEN, limit, faults>>

NoRequest == Request("", "", "none", "", NoContent, "")

EmptyBucket == [k \in {} |-> <<>>]

NoPre == [created |-> FALSE, deleted |-> FALSE, written |-> NoContent,
          store |-> EmptyBucket]

\* A bucket that already holds a note that is not UTF-8 and a canvas.
UsedBucket ==
    [k \in Keys |->
        IF k = "foo" THEN <<255>> ELSE Utf8Encode(JsonDumpsIndent2(<<1>>))]

NewEntry(owner) ==
    [requests |-> 0, bytes_sent |-> 0, bytes_received |-> 0, owner |-> owner]

Faults == {"client_error", "error"}

InitState(tokens, buckets, outages, concurrency, requests) ==
    /\ BACKEND_TOKEN \in tokens
    /\ store \in buckets
    /\ faults \in outages
    /\ bandwidth_stats = [total_bytes_sent |-> 0, total_bytes_received |-> 0,
                          total_requests |-> 0,
                          endpoints |-> [e \in {} |-> NewEntry(0)]]
    /\ pc = [w \in Workers |-> "idle"]
    /\ request = [w \in Workers |-> NoRequest]
    /\ response = [w \in Workers |-> NoResponse]
    /\ tmp = [w \in Workers |-> 0]
    /\ ref = [w \in Workers |-> 0]
    /\ calls = [w \in Workers |-> <<>>]
    /\ pre = [w \in Workers |-> NoPre]
    /\ limit = concurrency
    /\ quota = requests
    /\ audit = [completed |-> 0, bytes_sent |-> 0, bytes_received |-> 0,
                counted |-> 0, overlapped |-> FALSE]
    /\ created = {}
    /\ deleted = {}
    /\ last_write = [k \in Keys |-> NoContent]

\* The process after start-up, requests handled one at a time: with or
\* without a token, on an empty or a used bucket, with a store that answers
\* every call or one that can fail.
Init == InitState({"", TOKEN}, {EmptyBucket, UsedBucket}, {{}, Faults}, 1,
                  MaxRequests)

Busy == {w \in Workers : pc[w] # "idle"}

(***************************************************************************)
(* A request arrives and is given to a free worker.                        *)
(***************************************************************************)
Receive(w, menu) ==
    /\ pc[w] = "idle"
    /\ quota > 0
    /\ Cardinality(Busy) < limit
    /\ \A v \in Workers : v < w => pc[v] # "idle"
    /\ \E req \in menu : request' = [request EXCEPT ![w] = req]
    /\ pc' = [pc EXCEPT ![w] = "before"]
    /\ quota' = quota - 1
    /\ audit' = [audit EXCEPT !.overlapped = @ \/ Busy # {}]
    /\ UNCHANGED <<config_vars, store, bandwidth_stats, response, tmp, ref,
                   calls, pre, created, deleted, last_write>>

(***************************************************************************)
(* before_request hook.                                                    *)
(***************************************************************************)
\* A hook that counts the raw body alone.
BytesReceivedOfData(req) == Len(RequestData(req))

\* What the hook adds to total_bytes_received: len(request.data), or for a
\* parsed form len(str(request.form).encode("utf-8")); 0 when it adds nothing.
BytesReceived(req) ==
    IF RequestData(req) # "" THEN Len(RequestData(req))
    ELSE IF RequestForm(req) # <<>> THEN Len(FormStr(RequestForm(req)))
    ELSE 0

\* @app.before_request, run in one step.
track_bandwidth_before(w) ==
    /\ pc[w] = "before"
    /\ bandwidth_stats' =
         [bandwidth_stats EXCEPT
            !.total_bytes_received = @ + BytesReceived(request[w])]
    /\ pc' = [pc EXCEPT ![w] = "handler"]
    /\ UNCHANGED <<config_vars, store, request, response, tmp, ref, calls, pre,
                   quota, observer_vars>>

\* The load half of  bandwidth_stats["total_bytes_received"] += bytes_received
received_load(w) ==
    /\ pc[w] = "before"
    /\ IF BytesReceived(request[w]) > 0
       THEN /\ tmp' = [tmp EXCEPT ![w] = bandwidth_stats.total_bytes_received]
            /\ pc' = [pc EXCEPT ![w] = "received_store"]
       ELSE /\ pc' = [pc EXCEPT ![w] = "handler"]
            /\ UNCHANGED tmp
    /\ UNCHANGED <<config_vars, store, bandwidth_stats, request, response, ref,
                   calls, pre, quota, observer_vars>>

\* The store half.
received_store(w) ==
    /\ pc[w] = "received_store"
    /\ bandwidth_stats' =
         [bandwidth_stats EXCEPT
            !.total_bytes_received = tmp[w] + BytesReceived(request[w])]
    /\ pc' = [pc EXCEPT ![w] = "handler"]
    /\ UNCHANGED <<config_vars, store, request, response, tmp, ref, calls, pre,
                   quota, observer_vars>>

(***************************************************************************)
(* The object store client (boto3 s3).  A call either is answered by the   *)
(* store or fails: with a ClientError other than "no such key" (access     *)
(* denied, no such bucket: "client_error") or with an error that is no     *)
(* ClientError (the endpoint cannot be reached: "error"); faults holds the *)
(* failures that can happen.  A failed call leaves the bucket as it was.   *)
(***************************************************************************)
BUCKET == "notes"

ENDPOINT == "https://gateway.storjshare.io"

Outcomes == {"ok"} \cup faults

\* str(e) of a failed call.
ErrorString(op, fault) ==
    IF fault = "client_error"
    THEN "An error occurred (AccessDenied) when calling the " \o op
         \o " operation: Access Denied"
    ELSE "Could not connect to the endpoint URL: " \o Q(ENDPOINT)

\* The keys of the bucket in the order ListObjectsV2 returns them.
KeyOrder == <<"foo", "foo.canvas">>

ListObjects == SelectSeq(KeyOrder, LAMBDA k : k \in DOMAIN store)

Call(w, op, key, outcome) ==
    calls' = [calls EXCEPT ![w] = Append(@, <<op, key, outcome>>)]

\* s3.put_object(Bucket, Key, Body) answered by the store, and what the
\* observer notes about the key.
PutObject(key, body, by, text) ==
    /\ store' = [k \in DOMAIN store \cup {key} |->
                    IF k = key THEN body ELSE store[k]]
    /\ last_write' = [last_write EXCEPT
                        ![key] = IF by = "write_note" THEN Str(text)
                                 ELSE NoContent]
    /\ created' = IF by = "create_canvas" THEN created \cup {key} ELSE created
    /\ deleted' = {n \in deleted : CanvasKey(n) # key}

\* A delete of the object under the name of the URL, without the suffix rule.
DeleteObjectAsNamed(key, name) ==
    /\ store' = [k \in DOMAIN store \ {name} |-> store[k]]
    /\ last_write' = [last_write EXCEPT ![key] = NoContent]
    /\ created' = created \ {key}
    /\ deleted' = deleted \cup {name}

\* s3.delete_object(Bucket, Key) answered by the store.
DeleteObject(key, name) ==
    /\ store' = [k \in DOMAIN store \ {key} |-> store[k]]
    /\ last_write' = [last_write EXCEPT ![key] = NoContent]
    /\ created' = created \ {key}
    /\ deleted' = deleted \cup {name}

NoStoreChange == UNCHANGED <<store, created, deleted, last_write>>

(***************************************************************************)
(* Auth gate.                                                              *)
(***************************************************************************)
\* A gate that turns away only the requests without a header.
UnauthorizedWhenAbsent(req) ==
    /\ BACKEND_TOKEN # ""
    /\ req.authorization = ""

\* if BACKEND_TOKEN: ... if auth != f"Bearer {BACKEND_TOKEN}"
Unauthorized(req) ==
    /\ BACKEND_TOKEN # ""
    /\ req.authorization # "Bearer " \o BACKEND_TOKEN

\* The response check_auth returns, NoResponse for None.
check_auth(req) ==
    IF Unauthorized(req) THEN ErrorResponse(401, "Unauthorized")
    ELSE NoResponse

(***************************************************************************)
(* Route handlers.  A handler runs in one step up to and including its     *)
(* first store call; the canvas handlers that call the store twice take a  *)
(* second step for the second call.                                        *)
(***************************************************************************)
\* What earlier requests established about the key this request addresses.
Snapshot(req) ==
    [created |-> req.filename # "" /\ CanvasKey(req.filename) \in created,
     deleted |-> req.path \in deleted,
     written |-> IF req.filename \in Keys THEN last_write[req.filename]
                 ELSE NoContent,
     store |-> store]

Handling(w, endpoint) ==
    /\ pc[w] = "handler"
    /\ request[w].endpoint = endpoint
    /\ request[w].method = ""
    /\ pre' = [pre EXCEPT ![w] = Snapshot(request[w])]
    /\ UNCHANGED <<config_vars, bandwidth_stats, request, tmp, ref, quota,
                   audit>>

Second(w, label) ==
    /\ pc[w] = label
    /\ UNCHANGED <<config_vars, bandwidth_stats, request, tmp, ref, quota,
                   audit, pre>>

\* return response
Reply(w, resp) ==
    /\ response' = [response EXCEPT ![w] = resp]
    /\ pc' = [pc EXCEPT ![w] = "after"]

\* return without having called the store
ReplyNoCall(w, resp) ==
    /\ Reply(w, resp)
    /\ UNCHANGED calls
    /\ NoStoreChange

\* go on to the second store call
Continue(w, label) ==
    /\ pc' = [pc EXCEPT ![w] = label]
    /\ UNCHANGED response

\* request.get_json() fails unless the body is JSON (415 Unsupported Media
\* Type since Flask 2.1).
BadJson(req) == req.ctype # "json"

\* @app.route("/health")
health(w) ==
    /\ Handling(w, "health")
    /\ ReplyNoCall(w, JsonResponse(200, NoContent,
                      << <<"bucket", Q(BUCKET)>>, <<"endpoint", Q(ENDPOINT)>>,
                         <<"ok", "true">> >>))

\* @app.route('/openapi.yaml'): the static description file.
\* send_from_directory returns a response in direct passthrough mode; where
\* werkzeug refuses response.data on such a response, the after hook raises
\* at its first statement, before it counted anything, and Flask answers
\* with its 500 page, on which the hook runs again.  Both outcomes are
\* kept: the file, or the 500 page.
openapi_spec(w) ==
    /\ Handling(w, "openapi_spec")
    /\ \E resp \in {Response(200, "", NoContent, "openapi: 3.0.0\n"),
                     AbortResponse(500)} :
         ReplyNoCall(w, resp)

\* No route matches: werkzeug's NotFound, request.endpoint is None.
not_found(w) ==
    /\ Handling(w, "")
    /\ ReplyNoCall(w, AbortResponse(404))

\* Flask's automatic OPTIONS response: no view function runs, the body is
\* empty.
automatic_options(w) ==
    /\ pc[w] = "handler"
    /\ request[w].method = "OPTIONS"
    /\ UNCHANGED <<config_vars, bandwidth_stats, request, tmp, ref, quota,
                   audit, pre>>
    /\ ReplyNoCall(w, Response(200, "", NoContent, ""))

EndpointOrder ==
    <<"create_canvas", "delete_canvas", "get_canvas", "get_stats", "health",
      "list_canvas", "list_notes", "openapi_spec", "read_note", "unknown",
      "update_canvas", "write_note">>

\* The body of /stats.  Uptime and the clock are not modelled: the process
\* answers as of its start time.
StatsBody ==
    LET s  == bandwidth_stats
        es == SelectSeq(EndpointOrder, LAMBDA e : e \in DOMAIN s.endpoints)
        by == JsonObject([i \in 1..Len(es) |->
                <<es[i],
                  JsonObject(<<
                    <<"bytes_received", ToString(s.endpoints[es[i]].bytes_received)>>,
                    <<"bytes_sent", ToString(s.endpoints[es[i]].bytes_sent)>>,
                    <<"kb_received", Round2(s.endpoints[es[i]].bytes_received, 1024)>>,
                    <<"kb_sent", Round2(s.endpoints[es[i]].bytes_sent, 1024)>>,
                    <<"requests", ToString(s.endpoints[es[i]].requests)>> >>)>>])
    IN  << <<"bandwidth", JsonObject(<<
              <<"total_bytes", ToString(s.total_bytes_sent + s.total_bytes_received)>>,
              <<"total_bytes_received", ToString(s.total_bytes_received)>>,
              <<"total_bytes_sent", ToString(s.total_bytes_sent)>>,
              <<"total_mb", Round2(s.total_bytes_sent + s.total_bytes_received, 1048576)>>,
              <<"total_mb_received", Round2(s.total_bytes_received, 1048576)>>,
              <<"total_mb_sent", Round2(s.total_bytes_sent, 1048576)>> >>)>>,
           <<"current_time", Q("2026-01-01T00:00:00")>>,
           <<"requests", JsonObject(<< <<"by_endpoint", by>>,
                                       <<"total", ToString(s.total_requests)>> >>)>>,
           <<"start_time", Q("2026-01-01T00:00:00")>>,
           <<"uptime", JsonObject(<< <<"formatted", Q("0h 0m 0s")>>,
                                     <<"seconds", "0.0">> >>)>> >>

\* @app.route("/stats")
get_stats(w) ==
    /\ Handling(w, "get_stats")
    /\ IF Unauthorized(request[w]) THEN ReplyNoCall(w, check_auth(request[w]))
       ELSE ReplyNoCall(w, JsonResponse(200, NoContent, StatsBody))

JsonStrings(ss) == "[" \o Join([i \in 1..Len(ss) |-> Q(ss[i])], ",") \o "]"

\* @app.route("/listNotes")
list_notes(w) ==
    /\ Handling(w, "list_notes")
    /\ IF Unauthorized(request[w]) THEN ReplyNoCall(w, check_auth(request[w]))
       ELSE \E out \in Outcomes :
              /\ Call(w, "ListObjectsV2", "", out)
              /\ NoStoreChange
              /\ IF out = "ok"
                 THEN Reply(w, JsonResponse(200, NoContent,
                               << <<"files", JsonStrings(ListObjects)>> >>))
                 ELSE Reply(w, ErrorResponse(500, ErrorString("ListObjectsV2", out)))

\* @app.route("/canvas", methods=["GET"])
list_canvas(w) ==
    /\ Handling(w, "list_canvas")
    /\ IF Unauthorized(request[w]) THEN ReplyNoCall(w, check_auth(request[w]))
       ELSE \E out \in Outcomes :
              /\ Call(w, "ListObjectsV2", "", out)
              /\ NoStoreChange
              /\ IF out = "ok"
                 THEN LET canvas_files ==
                            SelectSeq(ListObjects, LAMBDA k : EndsWith(k, CANVAS))
                      IN  Reply(w, JsonResponse(200, NoContent,
                                 << <<"count", ToString(Len(canvas_files))>>,
                                    <<"files", JsonStrings(canvas_files)>> >>))
                 ELSE Reply(w, ErrorResponse(500, ErrorString("ListObjectsV2", out)))


\* What the store answers to a get or head of key: the object, or "no such
\* key" (NoSuchKey for get, a 404 ClientError for head).
Answer(key) == IF key \in DOMAIN store THEN "ok" ELSE "absent"

Result(key, out) == IF out = "ok" THEN Answer(key) ELSE out

DecodeError == "'utf-8' codec can't decode byte: invalid start byte"

EncodeError == "'utf-8' codec can't encode character: surrogates not allowed"

\* @app.route("/readNote")
read_note(w) ==
    LET req == request[w]
        filename == req.filename
    IN
    /\ Handling(w, "read_note")
    /\ IF Unauthorized(req) THEN ReplyNoCall(w, check_auth(req))
       ELSE IF BadJson(req) THEN ReplyNoCall(w, AbortResponse(415))
       ELSE IF filename = "" THEN ReplyNoCall(w, ErrorResponse(400, "Missing filename"))
       ELSE \E out \in Outcomes :
              /\ Call(w, "GetObject", filename, Result(filename, out))
              /\ NoStoreChange
              /\ IF out # "ok"
                 THEN Reply(w, ErrorResponse(500, ErrorString("GetObject", out)))
                 ELSE IF Answer(filename) = "absent"
                 THEN Reply(w, ErrorResponse(404, "Not found"))
                 ELSE IF ~Decodable(store[filename])
                 THEN Reply(w, ErrorResponse(500, DecodeError))
                 ELSE LET content == Utf8Decode(store[filename])
                      IN  Reply(w, JsonResponse(200, Str(content),
                                 << <<"content", JsonString(content)>>,
                                    <<"filename", Q(filename)>> >>))

\* @app.route("/writeNote")
write_note(w) ==
    LET req == request[w]
        filename == req.filename
        \* data.get("content", "")
        content == IF req.content.t = "none" THEN Str(<<>>) ELSE req.content
    IN
    /\ Handling(w, "write_note")
    /\ IF Unauthorized(req) THEN ReplyNoCall(w, check_auth(req))
       ELSE IF BadJson(req) THEN ReplyNoCall(w, AbortResponse(415))
       ELSE IF filename = "" THEN ReplyNoCall(w, ErrorResponse(400, "Missing filename"))
       ELSE IF content.t # "str"
       THEN ReplyNoCall(w, ErrorResponse(500,
                "'list' object has no attribute 'encode'"))
       ELSE IF ~Encodable(content.v)
       THEN ReplyNoCall(w, ErrorResponse(500, EncodeError))
       ELSE \E out \in Outcomes :
              /\ Call(w, "PutObject", filename, out)
              /\ IF out = "ok"
                 THEN /\ PutObject(filename, Utf8Encode(content.v),
                                   "write_note", content.v)
                      /\ Reply(w, JsonResponse(200, NoContent,
                                 << <<"message", Q(filename \o " uploaded")>>,
                                    <<"success", "true">> >>))
                 ELSE /\ NoStoreChange
                      /\ Reply(w, ErrorResponse(500, ErrorString("PutObject", out)))

NotFoundMessage(filename) == "Canvas file '" \o filename \o "' not found"

\* @app.route("/canvas/<path:filename>", methods=["GET"])
get_canvas(w) ==
    LET req == request[w]
        filename == CanvasKey(req.path)
    IN
    /\ Handling(w, "get_canvas")
    /\ IF Unauthorized(req) THEN ReplyNoCall(w, check_auth(req))
       ELSE \E out \in Outcomes :
              /\ Call(w, "GetObject", filename, Result(filename, out))
              /\ NoStoreChange
              /\ IF out # "ok"
                 THEN Reply(w, ErrorResponse(500, ErrorString("GetObject", out)))
                 ELSE IF Answer(filename) = "absent"
                 THEN Reply(w, ErrorResponse(404, NotFoundMessage(filename)))
                 ELSE IF ~Decodable(store[filename])
                 THEN Reply(w, ErrorResponse(500, DecodeError))
                 ELSE LET content == Utf8Decode(store[filename])
                          canvas_data == JsonLoads(content)
                      IN  Reply(w, JsonResponse(200, canvas_data,
                                 << <<"content", JsonValue(canvas_data)>>,
                                    <<"filename", Q(filename)>>,
                                    <<"last_modified", Q("2026-01-01T00:00:00+00:00")>>,
                                    <<"size", ToString(Len(content))>> >>))

\* An existence check that takes "no such key" for an answer.
HeadCheckAnswered(result) ==
    IF result \in {"ok", "absent"} THEN "found"
    ELSE IF result = "client_error" THEN "absent"
    ELSE "raise"

\* The existence check of the canvas handlers:
\*   try: s3.head_object(...)  except s3.exceptions.ClientError: <absent>
\* "found" when head returns, "absent" when it raises any ClientError,
\* "raise" when it raises anything else (the outer except answers 500).
HeadCheck(result) ==
    IF result = "ok" THEN "found"
    ELSE IF result \in {"absent", "client_error"} THEN "absent"
    ELSE "raise"

\* @app.route("/canvas", methods=["POST"]): up to the existence check
create_canvas(w) ==
    LET req == request[w]
        filename == CanvasKey(req.filename)
    IN
    /\ Handling(w, "create_canvas")
    /\ IF Unauthorized(req) THEN ReplyNoCall(w, check_auth(req))
       ELSE IF BadJson(req) THEN ReplyNoCall(w, AbortResponse(415))
       ELSE IF req.filename = ""
       THEN ReplyNoCall(w, ErrorResponse(400, "Missing filename"))
       ELSE IF Falsy(req.content)
       THEN ReplyNoCall(w, ErrorResponse(400, "Missing content"))
       ELSE \E out \in Outcomes :
              LET check == HeadCheck(Result(filename, out)) IN
              /\ Call(w, "HeadObject", filename, Result(filename, out))
              /\ NoStoreChange
              /\ IF check = "found"
                 THEN Reply(w, ErrorResponse(409,
                          "Canvas file '" \o filename \o "' already exists"))
                 ELSE IF check = "absent" THEN Continue(w, "create_put")
                 ELSE Reply(w, ErrorResponse(500, ErrorString("HeadObject", out)))

\* The put of create_canvas and update_canvas.
CanvasPut(w, by, status, done) ==
    LET req == request[w]
        filename == CanvasKey(IF by = "create_canvas" THEN req.filename ELSE req.path)
        content_str == ContentStr(req.content)
    IN
    IF ~Encodable(content_str)
    THEN ReplyNoCall(w, ErrorResponse(500, EncodeError))
    ELSE \E out \in Outcomes :
           /\ Call(w, "PutObject", filename, out)
           /\ IF out = "ok"
              THEN /\ PutObject(filename, Utf8Encode(content_str), by, content_str)
                   /\ Reply(w, JsonResponse(status, NoContent,
                              << <<"filename", Q(filename)>>,
                                 <<"message", Q("Canvas '" \o filename \o "' " \o done
                                                \o " successfully")>>,
                                 <<"success", "true">> >>))
              ELSE /\ NoStoreChange
                   /\ Reply(w, ErrorResponse(500, ErrorString("PutObject", out)))

\* A put that the store refuses when the key exists (If-None-Match: *).
create_canvas_put_if_absent(w) ==
    LET filename == CanvasKey(request[w].filename) IN
    /\ Second(w, "create_put")
    /\ IF filename \in DOMAIN store
       THEN ReplyNoCall(w, ErrorResponse(409,
                "Canvas file '" \o filename \o "' already exists"))
       ELSE CanvasPut(w, "create_canvas", 201, "created")

\* create_canvas: content conversion and put
create_canvas_put(w) ==
    /\ Second(w, "create_put")
    /\ CanvasPut(w, "create_canvas", 201, "created")

\* @app.route("/canvas/<path:filename>", methods=["PUT"]): up to the check
update_canvas(w) ==
    LET req == request[w]
        filename == CanvasKey(req.path)
    IN
    /\ Handling(w, "update_canvas")
    /\ IF Unauthorized(req) THEN ReplyNoCall(w, check_auth(req))
       ELSE IF BadJson(req) THEN ReplyNoCall(w, AbortResponse(415))
       ELSE IF Falsy(req.content)
       THEN ReplyNoCall(w, ErrorResponse(400, "Missing content"))
       ELSE \E out \in Outcomes :
              LET check == HeadCheck(Result(filename, out)) IN
              /\ Call(w, "HeadObject", filename, Result(filename, out))
              /\ NoStoreChange
              /\ IF check = "found" THEN Continue(w, "update_put")
                 ELSE IF check = "absent"
                 THEN Reply(w, ErrorResponse(404, NotFoundMessage(filename)))
                 ELSE Reply(w, ErrorResponse(500, ErrorString("HeadObject", out)))

\* update_canvas: content conversion and put
update_canvas_put(w) ==
    /\ Second(w, "update_put")
    /\ CanvasPut(w, "update_canvas", 200, "updated")

\* @app.route("/canvas/<path:filename>", methods=["DELETE"]): up to the check
delete_canvas(w) ==
    LET req == request[w]
        filename == CanvasKey(req.path)
    IN
    /\ Handling(w, "delete_canvas")
    /\ IF Unauthorized(req) THEN ReplyNoCall(w, check_auth(req))
       ELSE \E out \in Outcomes :
              LET check == HeadCheck(Result(filename, out)) IN
              /\ Call(w, "HeadObject", filename, Result(filename, out))
              /\ NoStoreChange
              /\ IF check = "found" THEN Continue(w, "delete_object")
                 ELSE IF check = "absent"
                 THEN Reply(w, ErrorResponse(404, NotFoundMessage(filename)))
                 ELSE Reply(w, ErrorResponse(500, ErrorString("HeadObject", out)))

\* delete_canvas: the delete
delete_canvas_delete(w) ==
    LET filename == CanvasKey(request[w].path) IN
    /\ Second(w, "delete_object")
    /\ \E out \in Outcomes :
         /\ Call(w, "DeleteObject", filename, out)
         /\ IF out = "ok"
            THEN /\ DeleteObject(filename, request[w].path)
                 /\ Reply(w, JsonResponse(200, NoContent,
                            << <<"filename", Q(filename)>>,
                               <<"message", Q("Canvas '" \o filename
                                              \o "' deleted successfully")>>,
                               <<"success", "true">> >>))
            ELSE /\ NoStoreChange
                 /\ Reply(w, ErrorResponse(500, ErrorString("DeleteObject", out)))


(***************************************************************************)
(* after_request hook.                                                     *)
(***************************************************************************)
\* endpoint = request.endpoint or "unknown"
EndpointName(req) == IF req.endpoint # "" THEN req.endpoint ELSE "unknown"

\* if endpoint not in bandwidth_stats["endpoints"]: ... = {"requests": 0, ...}
WithEntry(endpoints, endpoint, owner) ==
    IF endpoint \notin DOMAIN endpoints
    THEN [e \in DOMAIN endpoints \cup {endpoint} |->
            IF e = endpoint THEN NewEntry(owner) ELSE endpoints[e]]
    ELSE endpoints

\* The counters after track_bandwidth_after(response) has run on stats
\* without another request in between.
AfterRequest(stats, req, resp, owner) ==
    LET endpoint == EndpointName(req)
        sent == IF resp.data # "" THEN Len(resp.data) ELSE 0
        received == IF RequestData(req) # "" THEN Len(RequestData(req)) ELSE 0
        entries == WithEntry(stats.endpoints, endpoint, owner)
    IN  [stats EXCEPT
           !.total_bytes_sent = @ + sent,
           !.total_requests = @ + 1,
           !.endpoints = [entries EXCEPT
                            ![endpoint].requests = @ + 1,
                            ![endpoint].bytes_sent = @ + sent,
                            ![endpoint].bytes_received = @ + received]]

\* @app.after_request, run in one step.
track_bandwidth_after(w) ==
    /\ pc[w] = "after"
    /\ bandwidth_stats' =
         AfterRequest(bandwidth_stats, request[w], response[w], w)
    /\ pc' = [pc EXCEPT ![w] = "done"]
    /\ UNCHANGED <<config_vars, store, request, response, tmp, ref, calls, pre,
                   quota, observer_vars>>

(***************************************************************************)
(* The hook when requests run together.  Every  x += n  on the shared      *)
(* dictionaries is a load of x and a later store of the sum, and another   *)
(* request may run in between; a step holds exactly one of these accesses. *)
(* An endpoint entry is a dict object: the store half of += writes to the  *)
(* object the load half found, and is lost when another request has        *)
(* replaced the entry in between (owner names the worker whose request     *)
(* created the object).                                                    *)
(***************************************************************************)
HookStep(w, label) ==
    /\ pc[w] = label
    /\ UNCHANGED <<config_vars, store, request, response, calls, pre, quota,
                   observer_vars>>

Goto(w, label) == pc' = [pc EXCEPT ![w] = label]

\* The statement after the per-endpoint request count.
AfterEntryRequests(w) ==
    IF response[w].data # "" THEN "entry_sent_load"
    ELSE IF RequestData(request[w]) # "" THEN "entry_received_load"
    ELSE "done"

\* The statement after the per-endpoint bytes_sent.
AfterEntrySent(w) ==
    IF RequestData(request[w]) # "" THEN "entry_received_load" ELSE "done"

Entry(w) == bandwidth_stats.endpoints[EndpointName(request[w])]

LoadEntry(w, value) ==
    /\ tmp' = [tmp EXCEPT ![w] = value]
    /\ ref' = [ref EXCEPT ![w] = Entry(w).owner]
    /\ UNCHANGED bandwidth_stats

\* The store half of += on a field of the entry object loaded before.
StoreEntry(w, entry) ==
    /\ IF Entry(w).owner = ref[w]
       THEN bandwidth_stats' =
              [bandwidth_stats EXCEPT !.endpoints[EndpointName(request[w])] = entry]
       ELSE UNCHANGED bandwidth_stats
    /\ UNCHANGED <<tmp, ref>>

\* if response.data: bandwidth_stats["total_bytes_sent"] += bytes_sent
sent_load(w) ==
    /\ HookStep(w, "after")
    /\ response[w].data # ""
    /\ tmp' = [tmp EXCEPT ![w] = bandwidth_stats.total_bytes_sent]
    /\ Goto(w, "sent_store")
    /\ UNCHANGED <<bandwidth_stats, ref>>

sent_store(w) ==
    /\ HookStep(w, "sent_store")
    /\ bandwidth_stats' = [bandwidth_stats EXCEPT
            !.total_bytes_sent = tmp[w] + Len(response[w].data)]
    /\ Goto(w, "requests_load")
    /\ UNCHANGED <<tmp, ref>>

\* bandwidth_stats["total_requests"] += 1
requests_load(w) ==
    /\ \/ HookStep(w, "requests_load")
       \/ HookStep(w, "after") /\ response[w].data = ""
    /\ tmp' = [tmp EXCEPT ![w] = bandwidth_stats.total_requests]
    /\ Goto(w, "requests_store")
    /\ UNCHANGED <<bandwidth_stats, ref>>

\* A store half that counts the request twice.
requests_store_twice(w) ==
    /\ HookStep(w, "requests_store")
    /\ bandwidth_stats' = [bandwidth_stats EXCEPT !.total_requests = tmp[w] + 2]
    /\ Goto(w, "entry_check")
    /\ UNCHANGED <<tmp, ref>>

requests_store(w) ==
    /\ HookStep(w, "requests_store")
    /\ bandwidth_stats' = [bandwidth_stats EXCEPT !.total_requests = tmp[w] + 1]
    /\ Goto(w, "entry_check")
    /\ UNCHANGED <<tmp, ref>>

\* if endpoint not in bandwidth_stats["endpoints"]:
entry_check(w) ==
    /\ HookStep(w, "entry_check")
    /\ IF EndpointName(request[w]) \notin DOMAIN bandwidth_stats.endpoints
       THEN Goto(w, "entry_insert")
       ELSE Goto(w, "entry_requests_load")
    /\ UNCHANGED <<bandwidth_stats, tmp, ref>>

\*     bandwidth_stats["endpoints"][endpoint] = {"requests": 0, ...}
entry_insert(w) ==
    LET endpoint == EndpointName(request[w])
        endpoints == bandwidth_stats.endpoints
    IN
    /\ HookStep(w, "entry_insert")
    /\ bandwidth_stats' = [bandwidth_stats EXCEPT !.endpoints =
            [e \in DOMAIN endpoints \cup {endpoint} |->
                IF e = endpoint THEN NewEntry(w) ELSE endpoints[e]]]
    /\ Goto(w, "entry_requests_load")
    /\ UNCHANGED <<tmp, ref>>

\* bandwidth_stats["endpoints"][endpoint]["requests"] += 1
entry_requests_load(w) ==
    /\ HookStep(w, "entry_requests_load")
    /\ LoadEntry(w, Entry(w).requests)
    /\ Goto(w, "entry_requests_store")

entry_requests_store(w) ==
    /\ HookStep(w, "entry_requests_store")
    /\ StoreEntry(w, [Entry(w) EXCEPT !.requests = tmp[w] + 1])
    /\ Goto(w, AfterEntryRequests(w))

\* if response.data: ...["bytes_sent"] += len(response.data)
entry_sent_load(w) ==
    /\ HookStep(w, "entry_sent_load")
    /\ LoadEntry(w, Entry(w).bytes_sent)
    /\ Goto(w, "entry_sent_store")

entry_sent_store(w) ==
    /\ HookStep(w, "entry_sent_store")
    /\ StoreEntry(w, [Entry(w) EXCEPT
                        !.bytes_sent = tmp[w] + Len(response[w].data)])
    /\ Goto(w, AfterEntrySent(w))

\* if request.data: ...["bytes_received"] += len(request.data)
entry_received_load(w) ==
    /\ HookStep(w, "entry_received_load")
    /\ LoadEntry(w, Entry(w).bytes_received)
    /\ Goto(w, "entry_received_store")

entry_received_store(w) ==
    /\ HookStep(w, "entry_received_store")
    /\ StoreEntry(w, [Entry(w) EXCEPT
                        !.bytes_received = tmp[w] + Len(RequestData(request[w]))])
    /\ Goto(w, "done")

\* The response leaves the server; the observer adds the request to its
\* tally: the sizes of the bodies on the wire, and under counted the body
\* size, with the size of str(request.form) in place of a form body's.
Respond(w) ==
    /\ pc[w] = "done"
    /\ audit' = [audit EXCEPT
                   !.completed = @ + 1,
                   !.bytes_sent = @ + Len(response[w].data),
                   !.bytes_received = @ + Len(RequestBody(request[w])),
                   !.counted = @ + IF request[w].ctype = "form"
                                     THEN Len(FormStr(FormPairs))
                                     ELSE Len(RequestBody(request[w]))]
    /\ pc' = [pc EXCEPT ![w] = "idle"]
    /\ request' = [request EXCEPT ![w] = NoRequest]
    /\ response' = [response EXCEPT ![w] = NoResponse]
    /\ tmp' = [tmp EXCEPT ![w] = 0]
    /\ ref' = [ref EXCEPT ![w] = 0]
    /\ calls' = [calls EXCEPT ![w] = <<>>]
    /\ pre' = [pre EXCEPT ![w] = NoPre]
    /\ UNCHANGED <<config_vars, store, bandwidth_stats, quota, created, deleted,
                   last_write>>

(***************************************************************************)
(* Specifications.                                                         *)
(***************************************************************************)
Hooks(w) ==
    \/ track_bandwidth_before(w)
    \/ track_bandwidth_after(w)
    \/ Respond(w)

Plain(w) ==
    \/ health(w)
    \/ openapi_spec(w)
    \/ not_found(w)
    \/ automatic_options(w)
    \/ get_stats(w)

Notes(w) ==
    \/ list_notes(w)
    \/ read_note(w)
    \/ write_note(w)

Canvas(w) ==
    \/ list_canvas(w)
    \/ get_canvas(w)
    \/ create_canvas(w)
    \/ create_canvas_put(w)
    \/ update_canvas(w)
    \/ update_canvas_put(w)
    \/ delete_canvas(w)
    \/ delete_canvas_delete(w)

RacingHooks(w) ==
    \/ received_load(w)
    \/ received_store(w)
    \/ sent_load(w)
    \/ sent_store(w)
    \/ requests_load(w)
    \/ requests_store(w)
    \/ entry_check(w)
    \/ entry_insert(w)
    \/ entry_requests_load(w)
    \/ entry_requests_store(w)
    \/ entry_sent_load(w)
    \/ entry_sent_store(w)
    \/ entry_received_load(w)
    \/ entry_received_store(w)
    \/ Respond(w)

\* The server, requests handled one at a time.
Next ==
    \E w \in Workers :
        Receive(w, Requests) \/ Hooks(w) \/ Plain(w) \/ Notes(w) \/ Canvas(w)

Spec == Init /\ [][Next]_vars

\* Scenarios of Spec: the clients send the requests of one menu, and the
\* deployment is one of Init's.

\* Every route under every header; the store answers every call.
InitAuth == InitState({"", TOKEN}, {UsedBucket}, {{}}, 1, MaxRequests)

NextAuth ==
    \E w \in Workers :
        Receive(w, AuthRequests) \/ Hooks(w) \/ Plain(w) \/ Notes(w) \/ Canvas(w)

SpecAuth == InitAuth /\ [][NextAuth]_vars

\* Note requests against a store that can fail.
InitNotes == InitState({TOKEN}, {EmptyBucket, UsedBucket}, {Faults}, 1, MaxRequests)

NextNotes == \E w \in Workers : Receive(w, NoteRequests) \/ Hooks(w) \/ Notes(w)

SpecNotes == InitNotes /\ [][NextNotes]_vars

\* Canvas requests against a store that can fail.
InitCanvas == InitState({TOKEN}, {EmptyBucket, UsedBucket}, {Faults}, 1, MaxRequests)

NextCanvas == \E w \in Workers : Receive(w, CanvasRequests) \/ Hooks(w) \/ Canvas(w)

SpecCanvas == InitCanvas /\ [][NextCanvas]_vars

\* Requests of every body kind; the store answers every call.
InitStats == InitState({TOKEN}, {UsedBucket}, {{}}, 1, MaxRequests)

NextStats ==
    \E w \in Workers : Receive(w, StatsRequests) \/ Hooks(w) \/ Plain(w) \/ Notes(w)

SpecStats == InitStats /\ [][NextStats]_vars

\* Two requests may be in flight together (a threaded server) and race on
\* the counters; no handler calls the store.
InitRace == InitState({TOKEN}, {EmptyBucket}, {{}}, 2, MaxRaceRequests)

NextRace ==
    \E w \in Workers :
        \/ Receive(w, CounterRequests)
        \/ RacingHooks(w)
        \/ health(w)
        \/ not_found(w)

SpecRace == InitRace /\ [][NextRace]_vars

\* Two creations of a canvas may be in flight together.  The hooks touch
\* the counters alone, which no handler of this scenario reads: each runs
\* here in one step.
InitCreateRace == InitState({TOKEN}, {EmptyBucket}, {{}}, 2, MaxRaceRequests)

NextCreateRace ==
    \E w \in Workers :
        \/ Receive(w, CreateRequests)
        \/ Hooks(w)
        \/ create_canvas(w)
        \/ create_canvas_put(w)

SpecCreateRace == InitCreateRace /\ [][NextCreateRace]_vars

(***************************************************************************)
(* Properties.                                                             *)
(***************************************************************************)
\* The handler of worker w's request has returned.
Answered(w) == pc[w] \in {"after", "done"}

\* A token is configured and the request's header is not "Bearer " + token.
BadHeader(w) ==
    /\ pc[w] # "idle"
    /\ BACKEND_TOKEN # ""
    /\ request[w].authorization # "Bearer " \o BACKEND_TOKEN

\* The view functions that begin with check_auth().
Guarded ==
    {"get_stats", "list_notes", "read_note", "write_note", "list_canvas",
     "get_canvas", "create_canvas", "update_canvas", "delete_canvas"}

\* Flask dispatched the request to the view function of its route.
Dispatched(w) == request[w].endpoint # "" /\ request[w].method = ""

\* C1 as stated: with a token configured, every request, to any endpoint,
\* whose header is not exactly "Bearer " + token is answered 401 and makes no
\* store call.
C1_EveryEndpoint401 ==
    \A w \in Workers :
        BadHeader(w) =>
            /\ calls[w] = <<>>
            /\ Answered(w) => response[w].status = 401

\* C1, amended: with a token configured, a request whose header is not
\* exactly "Bearer " + token makes no store call, and is answered 401
\* {"error": "Unauthorized"} when it is dispatched to one of the nine view
\* functions that call check_auth; /health, /openapi.yaml, an unmatched
\* route and an automatic OPTIONS are answered as for any caller.
C1_GuardedEndpoints401 ==
    \A w \in Workers :
        BadHeader(w) =>
            /\ calls[w] = <<>>
            /\ (Answered(w) /\ Dispatched(w) /\ request[w].endpoint \in Guarded)
                 => /\ response[w].status = 401
                    /\ response[w].error = "Unauthorized"
            /\ (Answered(w) /\ ~(Dispatched(w) /\ request[w].endpoint \in Guarded))
                 => response[w].status # 401

\* A write with the token but without the "Bearer " prefix was answered 401.
C1_Witness ==
    \E w \in Workers :
        /\ pc[w] = "done"
        /\ BACKEND_TOKEN = TOKEN
        /\ request[w].endpoint = "write_note"
        /\ request[w].authorization = TOKEN
        /\ response[w].status = 401

\* The store answered the first store call of worker w's request.
FirstCallAnswered(w) == calls[w] # <<>> /\ calls[w][1][3] \notin Faults

\* The request of worker w made no put.
NoPut(w) == \A i \in 1..Len(calls[w]) : calls[w][i][1] # "PutObject"

\* The bucket differs from what the handler of worker w found at most at key.
OnlyChanged(w, key) ==
    /\ DOMAIN store \ {key} = DOMAIN pre[w].store \ {key}
    /\ \A k \in DOMAIN store \ {key} : store[k] = pre[w].store[k]

\* name with ".canvas" appended unless its last seven characters are that.
Suffixed(name) ==
    IF Len(name) >= 7 /\ SubSeq(name, Len(name) - 6, Len(name)) = ".canvas"
    THEN name ELSE name \o ".canvas"

\* C2: a successful /writeNote of (K, C) followed by /readNote of K, with no
\* other write or delete of K in between and the store answering the read,
\* returns 200 with content exactly C.
C2_WriteReadRoundTrip ==
    \A w \in Workers :
        ( /\ Answered(w)
          /\ request[w].endpoint = "read_note"
          /\ pre[w].written.t = "str"
          /\ FirstCallAnswered(w) )
        => /\ response[w].status = 200
           /\ response[w].content = pre[w].written
           /\ calls[w] = << <<"GetObject", request[w].filename, "ok">> >>

\* A text of a two-byte and a three-byte character was written and read back.
C2_Witness ==
    \E w \in Workers :
        /\ pc[w] = "done"
        /\ request[w].endpoint = "read_note"
        /\ pre[w].written = Str(<<233, 8364>>)
        /\ response[w].content = Str(<<233, 8364>>)

\* C3: POST /canvas answered 201 has put the object under the name with
\* ".canvas" appended unless the name ends in it, and has changed no other
\* key; a second POST /canvas for the same name, after the first completed
\* with 201 and with the store answering the existence check, returns 409
\* and does not write.
C3_CreateSuffixThenConflict ==
    \A w \in Workers :
        (Answered(w) /\ Dispatched(w) /\ request[w].endpoint = "create_canvas")
        => LET key == Suffixed(request[w].filename) IN
           /\ response[w].status = 201
                => /\ Len(calls[w]) = 2
                   /\ calls[w][1][1] = "HeadObject" /\ calls[w][1][2] = key
                   /\ calls[w][2] = <<"PutObject", key, "ok">>
                   /\ key \in DOMAIN store
                   /\ store[key] = Utf8Encode(ContentStr(request[w].content))
                   /\ OnlyChanged(w, key)
           /\ (key \in created /\ pre[w].created /\ FirstCallAnswered(w))
                => /\ response[w].status = 409
                   /\ calls[w] = << <<"HeadObject", key, "ok">> >>
                   /\ store = pre[w].store

\* A second creation of "foo", stored as "foo.canvas", was answered 409.
C3_Witness ==
    \E w \in Workers :
        /\ pc[w] = "done"
        /\ request[w].endpoint = "create_canvas"
        /\ request[w].filename = "foo"
        /\ pre[w].created
        /\ "foo.canvas" \in created
        /\ response[w].status = 409

\* C4: PUT /canvas/{name} for a key absent from the store performs no put
\* and leaves the keys and their contents as they were; it returns 404 when
\* the request reaches the existence check (authorized, JSON body with
\* content) and the check does not fail with an error that is no ClientError.
C4_UpdateAbsent ==
    \A w \in Workers :
        ( /\ Answered(w) /\ Dispatched(w)
          /\ request[w].endpoint = "update_canvas"
          /\ Suffixed(request[w].path) \notin DOMAIN pre[w].store )
        => /\ NoPut(w)
           /\ store = pre[w].store
           /\ (calls[w] # <<>> /\ calls[w][1][3] # "error")
                => /\ response[w].status = 404
                   /\ response[w].error =
                        "Canvas file '" \o Suffixed(request[w].path) \o "' not found"
                   /\ Len(calls[w]) = 1

\* An update of "foo" on a bucket without "foo.canvas" was answered 404.
C4_Witness ==
    \E w \in Workers :
        /\ pc[w] = "done"
        /\ request[w].endpoint = "update_canvas"
        /\ request[w].path = "foo"
        /\ "foo.canvas" \notin DOMAIN pre[w].store
        /\ calls[w] = << <<"HeadObject", "foo.canvas", "absent">> >>
        /\ response[w].status = 404

\* C5: DELETE /canvas/{name} answered 200 has removed the key name with the
\* suffix rule applied and nothing else; a later GET /canvas/{name} for the
\* same name, with no put of that key in between and the store answering,
\* asks for the same key and returns 404.
C5_DeleteThenGet ==
    \A w \in Workers :
        (Answered(w) /\ Dispatched(w))
        => LET key == Suffixed(request[w].path) IN
           /\ (request[w].endpoint = "delete_canvas" /\ response[w].status = 200)
                => /\ key \notin DOMAIN store
                   /\ key \in DOMAIN pre[w].store
                   /\ OnlyChanged(w, key)
                   /\ calls[w] = << <<"HeadObject", key, "ok">>,
                                    <<"DeleteObject", key, "ok">> >>
           /\ ( /\ request[w].endpoint = "get_canvas"
                /\ pre[w].deleted
                /\ FirstCallAnswered(w) )
                => /\ response[w].status = 404
                   /\ calls[w] = << <<"GetObject", key, "absent">> >>

\* "foo" was deleted with 200 and a GET of "foo" was then answered 404.
C5_Witness ==
    \E w \in Workers :
        /\ pc[w] = "done"
        /\ request[w].endpoint = "get_canvas"
        /\ request[w].path = "foo"
        /\ pre[w].deleted
        /\ response[w].status = 404

\* C7 as stated: in every endpoint a store call that fails with an error
\* other than key-absent is the last store call of its request, and the
\* request is answered 500 with the error's string; this includes a failing
\* head existence check in canvas create, update and delete.
C7_StoreFailure500 ==
    \A w \in Workers :
        \A i \in 1..Len(calls[w]) :
            calls[w][i][3] \in Faults
            => /\ i = Len(calls[w])
               /\ Answered(w)
                    => /\ response[w].status = 500
                       /\ response[w].error =
                            ErrorString(calls[w][i][1], calls[w][i][3])

\* No request is in the server.
Idle == \A w \in Workers : pc[w] = "idle"

\* The sum of one counter over the endpoint entries.
RECURSIVE SumOver(_, _)
SumOver(entries, field) ==
    IF DOMAIN entries = {} THEN 0
    ELSE LET e == CHOOSE x \in DOMAIN entries : TRUE
         IN  entries[e][field]
             + SumOver([x \in DOMAIN entries \ {e} |-> entries[x]], field)

\* C6 as stated: with requests handled one at a time, after N completed
\* requests total_requests is N, total_bytes_sent is the sum of the N
\* response body lengths and total_bytes_received the sum of the N request
\* body lengths.
C6_TotalsAreBodyLengths ==
    Idle =>
        /\ bandwidth_stats.total_requests = audit.completed
        /\ bandwidth_stats.total_bytes_sent = audit.bytes_sent
        /\ bandwidth_stats.total_bytes_received = audit.bytes_received

\* C6, amended: with requests handled one at a time, after N completed
\* requests total_requests is N, total_bytes_sent is the sum of the N
\* response body lengths, and total_bytes_received is the sum over the N
\* requests of the body length, where a form-encoded body counts with the
\* length of str(request.form) in place of its own.
C6_TotalsWithFormRepr ==
    Idle =>
        /\ bandwidth_stats.total_requests = audit.completed
        /\ bandwidth_stats.total_bytes_sent = audit.bytes_sent
        /\ bandwidth_stats.total_bytes_received = audit.counted

\* Two requests completed, one of them with a form body, whose 3 bytes were
\* counted as the 32 of "ImmutableMultiDict([('a', 'b')])".
C6_Witness ==
    /\ Idle
    /\ audit.completed = 2
    /\ audit.counted = audit.bytes_received + 29
    /\ bandwidth_stats.total_requests = 2
    /\ bandwidth_stats.total_bytes_received = audit.counted

\* C10 as stated: with requests handled one at a time, between requests the
\* endpoint entries sum to the totals, for requests, bytes_sent and
\* bytes_received, form-encoded bodies and unmatched routes included.
C10_BreakdownSumsToTotals ==
    Idle =>
        LET entries == bandwidth_stats.endpoints IN
        /\ SumOver(entries, "requests") = bandwidth_stats.total_requests
        /\ SumOver(entries, "bytes_sent") = bandwidth_stats.total_bytes_sent
        /\ SumOver(entries, "bytes_received")
             = bandwidth_stats.total_bytes_received

\* C8: of two POST /canvas in flight together, each one whose existence
\* check found the key absent goes on to put, whatever the other has done
\* since, and each put replaces the object and is answered 201, never 409:
\* the bucket holds the content of the put that ran last.
C8_ConcurrentCreates ==
    [][\A w \in Workers :
          LET key == Suffixed(request[w].filename) IN
          /\ (pc[w] = "handler" /\ pc'[w] # "handler" /\ key \notin DOMAIN store)
               => pc'[w] = "create_put"
          /\ (pc[w] = "create_put" /\ pc'[w] # "create_put")
               => /\ response'[w].status = 201
                  /\ calls'[w] = << <<"HeadObject", key, "absent">>,
                                    <<"PutObject", key, "ok">> >>
                  /\ key \in DOMAIN store'
                  /\ store'[key] = Utf8Encode(ContentStr(request[w].content))
     ]_vars

\* Two creations of "foo.canvas" with different contents are both answered
\* 201, and the bucket holds the content of the second worker's.
C8_Witness ==
    /\ \A w \in Workers :
         /\ pc[w] = "done"
         /\ request[w].endpoint = "create_canvas"
         /\ Suffixed(request[w].filename) = "foo.canvas"
         /\ response[w].status = 201
    /\ request[1].content # request[2].content
    /\ store["foo.canvas"] = Utf8Encode(ContentStr(request[2].content))

\* C9: the counters never exceed the tally of the completed requests, and
\* they equal it unless two requests were in the server together; when two
\* were, updates can be lost.
C9_LostUpdates ==
    Idle =>
        LET entries == bandwidth_stats.endpoints IN
        /\ bandwidth_stats.total_requests <= audit.completed
        /\ bandwidth_stats.total_bytes_sent <= audit.bytes_sent
        /\ bandwidth_stats.total_bytes_received <= audit.counted
        /\ SumOver(entries, "requests") <= audit.completed
        /\ SumOver(entries, "bytes_sent") <= audit.bytes_sent
        /\ SumOver(entries, "bytes_received") <= audit.counted
        /\ ~audit.overlapped
             => /\ bandwidth_stats.total_requests = audit.completed
                /\ bandwidth_stats.total_bytes_sent = audit.bytes_sent
                /\ bandwidth_stats.total_bytes_received = audit.counted
                /\ SumOver(entries, "requests") = audit.completed

\* Two requests ran together and every counter lost an update.
C9_Witness ==
    /\ Idle
    /\ audit.completed = 2
    /\ bandwidth_stats.total_requests < audit.completed
    /\ bandwidth_stats.total_bytes_sent < audit.bytes_sent
    /\ bandwidth_stats.total_bytes_received < audit.counted
    /\ SumOver(bandwidth_stats.endpoints, "requests") < audit.completed
    /\ SumOver(bandwidth_stats.endpoints, "bytes_sent") < audit.bytes_sent
    /\ SumOver(bandwidth_stats.endpoints, "bytes_received") < audit.counted

=============================================================================
